---- MODULE Spec2Model ----
(***************************************************************************)
(* Model of the authentication routes of app/routers/users.py:            *)
(* create_user, login, refresh_access_token and rotate_refresh_token,     *)
(* over the users table, the wall clock and the tokens clients hold.      *)
(***************************************************************************)
EXTENDS Integers, FiniteSets, Sequences, TLC

VARIABLES users, now, held, req, resp, pending, products, categories, call

\* The state of the products router.
shop == <<products, categories, call>>

vars == <<users, now, held, req, resp, pending, shop>>

(* ------------------------------ bounds -------------------------------- *)

\* Last clock tick the model reaches.
MaxTime == 2
\* Number of tokens the clients keep for later requests.
MaxHeld == 3
\* Number of create_user requests in flight at the same time.
MaxRequests == 2
\* Number of rows the products table can take.
MaxProducts == 2

(* --------------------------- value domains ---------------------------- *)

Emails == {"a@x", "b@x"}
Passwords == {"pw1", "pw2"}
Roles == {"buyer", "seller"}
None == "None"

(* ----------------------- app.auth / app.config ------------------------ *)

\* Lifetime of an access token, in clock ticks.
ACCESS_TOKEN_LIFETIME == 1
\* Lifetime of a refresh token, in clock ticks.
REFRESH_TOKEN_LIFETIME == 2

\* hash_password: a one-way hash, a value distinct from the plaintext.
hash_password(password) == <<"hash", password>>

\* verify_password: true iff the plaintext re-hashes to the stored digest.
verify_password(password, hashed_password) ==
    hashed_password = hash_password(password)

\* A token is its claims plus the state of its signature:
\* "good" (signed with SECRET_KEY), "bad" (signature does not verify),
\* "malformed" (not a JWT at all), "none" (no token).
NoToken ==
    [sub |-> None, role |-> None, id |-> 0, token_type |-> None,
     exp |-> 0, sig |-> "none"]

Garbage ==
    [sub |-> None, role |-> None, id |-> 0, token_type |-> None,
     exp |-> 0, sig |-> "malformed"]

\* jwt.encode of data plus token_type and exp, signed with SECRET_KEY.
encode(data, token_type, exp) ==
    [sub |-> data.sub, role |-> data.role, id |-> data.id,
     token_type |-> token_type, exp |-> exp, sig |-> "good"]

create_access_token(data, t) ==
    encode(data, "access", t + ACCESS_TOKEN_LIFETIME)

create_refresh_token(data, t) ==
    encode(data, "refresh", t + REFRESH_TOKEN_LIFETIME)

(* ----------------------------- jwt.decode ----------------------------- *)

\* Outcome of jwt.decode(token, SECRET_KEY, algorithms=[ALGORITHM]) at time t:
\* structure and signature are verified first, then the exp claim.
decode(token, t) ==
    IF token.sig # "good" THEN "PyJWTError"
    ELSE IF token.exp <= t THEN "ExpiredSignatureError"
    ELSE "payload"

(* ------------------------------ responses ----------------------------- *)

Response(status, detail, bearer, access, refresh) ==
    [status |-> status, detail |-> detail, www_authenticate |-> bearer,
     access_token |-> access, refresh_token |-> refresh]

NoResponse == Response(0, "", FALSE, NoToken, NoToken)

credentials_exception ==
    Response(401, "Could not validate refresh token", TRUE, NoToken, NoToken)

\* select(UserModel).where(email == e, is_active == True)
ActiveByEmail(us, email) == {u \in us : u.email = email /\ u.is_active}

\* select(UserModel).where(email == e)
ByEmail(us, email) == {u \in us : u.email = email}

\* result.first(): the row with the smallest primary key.
First(rows) == CHOOSE u \in rows : \A v \in rows : u.id <= v.id

Data(user) == [sub |-> user.email, role |-> user.role, id |-> user.id]

(* ------------------------- faulty variants ---------------------------- *)
\* Variants of the handlers with one plausible fault each; the properties
\* below are expected to tell every one of them from the handler itself.

\* refresh_access_token without the token_type check.
refresh_access_token_NoTypeCheck(token, us, t) ==
    LET d == decode(token, t)
        rows == ActiveByEmail(us, token.sub)
    IN  IF d = "ExpiredSignatureError"
        THEN [resp |-> Response(401, "Refresh token has expired", TRUE,
                                NoToken, NoToken),
              users |-> us]
        ELSE IF d = "PyJWTError" \/ token.sub = None \/ rows = {}
        THEN [resp |-> credentials_exception, users |-> us]
        ELSE [resp |-> Response(200, "", FALSE,
                                create_access_token(Data(First(rows)), t),
                                NoToken),
              users |-> us]

\* refresh_access_token with "except jwt.PyJWTError" written first: it also
\* catches ExpiredSignatureError, a subclass of PyJWTError.
refresh_access_token_ExceptOrder(token, us, t) ==
    LET d == decode(token, t)
        rows == ActiveByEmail(us, token.sub)
    IN  IF d # "payload"
        THEN [resp |-> credentials_exception, users |-> us]
        ELSE IF token.token_type # "refresh"
        THEN [resp |-> Response(401, "Invalid token type: expected 'refresh'",
                                TRUE, NoToken, NoToken),
              users |-> us]
        ELSE IF token.sub = None \/ rows = {}
        THEN [resp |-> credentials_exception, users |-> us]
        ELSE [resp |-> Response(200, "", FALSE,
                                create_access_token(Data(First(rows)), t),
                                NoToken),
              users |-> us]

\* refresh_access_token that consumes the session: a success deactivates
\* the identity.
refresh_access_token_Consuming(token, us, t) ==
    LET d == decode(token, t)
        rows == ActiveByEmail(us, token.sub)
    IN  IF d = "ExpiredSignatureError"
        THEN [resp |-> Response(401, "Refresh token has expired", TRUE,
                                NoToken, NoToken),
              users |-> us]
        ELSE IF d = "PyJWTError"
        THEN [resp |-> credentials_exception, users |-> us]
        ELSE IF token.token_type # "refresh"
        THEN [resp |-> Response(401, "Invalid token type: expected 'refresh'",
                                TRUE, NoToken, NoToken),
              users |-> us]
        ELSE IF token.sub = None \/ rows = {}
        THEN [resp |-> credentials_exception, users |-> us]
        ELSE [resp |-> Response(200, "", FALSE,
                                create_access_token(Data(First(rows)), t),
                                NoToken),
              users |-> (us \ rows)
                        \cup {[u EXCEPT !.is_active = FALSE] : u \in rows}]

\* login that filters on the email alone, not on is_active.
login_IgnoresActive(username, password, us, t) ==
    LET rows == ByEmail(us, username)
    IN  IF rows = {} \/ ~verify_password(password, First(rows).hashed_password)
        THEN [resp |-> Response(401, "Incorrect email or password", TRUE,
                                NoToken, NoToken),
              users |-> us]
        ELSE [resp |-> Response(200, "", FALSE,
                                create_access_token(Data(First(rows)), t),
                                create_refresh_token(Data(First(rows)), t)),
              users |-> us]

\* login that locks the account on a wrong password.
login_Lockout(username, password, us, t) ==
    LET rows == ActiveByEmail(us, username)
    IN  IF rows = {}
        THEN [resp |-> Response(401, "Incorrect email or password", TRUE,
                                NoToken, NoToken),
              users |-> us]
        ELSE IF ~verify_password(password, First(rows).hashed_password)
        THEN [resp |-> Response(401, "Incorrect email or password", TRUE,
                                NoToken, NoToken),
              users |-> (us \ rows)
                        \cup {[u EXCEPT !.is_active = FALSE] : u \in rows}]
        ELSE [resp |-> Response(200, "", FALSE,
                                create_access_token(Data(First(rows)), t),
                                create_refresh_token(Data(First(rows)), t)),
              users |-> us]

\* rotate_refresh_token that gives the new token the access-token lifetime.
rotate_refresh_token_AccessLifetime(token, us, t) ==
    LET d == decode(token, t)
        rows == ActiveByEmail(us, token.sub)
    IN  IF d # "payload" \/ token.sub = None \/ token.token_type # "refresh"
           \/ rows = {}
        THEN [resp |-> credentials_exception, users |-> us]
        ELSE [resp |-> Response(200, "", FALSE, NoToken,
                                encode(Data(First(rows)), "refresh",
                                       t + ACCESS_TOKEN_LIFETIME)),
              users |-> us]

\* rotate_refresh_token that ends the session it rotates: a success
\* deactivates the identity.
rotate_refresh_token_Revoking(token, us, t) ==
    LET d == decode(token, t)
        rows == ActiveByEmail(us, token.sub)
    IN  IF d # "payload" \/ token.sub = None \/ token.token_type # "refresh"
           \/ rows = {}
        THEN [resp |-> credentials_exception, users |-> us]
        ELSE [resp |-> Response(200, "", FALSE, NoToken,
                                create_refresh_token(Data(First(rows)), t)),
              users |-> (us \ rows)
                        \cup {[u EXCEPT !.is_active = FALSE] : u \in rows}]

\* rotate_refresh_token that filters on the email alone, not on is_active.
rotate_refresh_token_IgnoresActive(token, us, t) ==
    LET d == decode(token, t)
        rows == ByEmail(us, token.sub)
    IN  IF d # "payload" \/ token.sub = None \/ token.token_type # "refresh"
           \/ rows = {}
        THEN [resp |-> credentials_exception, users |-> us]
        ELSE [resp |-> Response(200, "", FALSE, NoToken,
                                create_refresh_token(Data(First(rows)), t)),
              users |-> us]

\* create_user without the uniqueness check.
create_user_NoUniquenessCheck(email, password, role, us) ==
    [resp |-> Response(201, "", FALSE, NoToken, NoToken),
     users |-> us \cup {[id |-> Cardinality(us) + 1, email |-> email,
                         hashed_password |-> hash_password(password),
                         role |-> role, is_active |-> TRUE]}]

\* login that returns the two tokens under each other's key.
login_SwappedTokens(username, password, us, t) ==
    LET rows == ActiveByEmail(us, username)
    IN  IF rows = {} \/ ~verify_password(password, First(rows).hashed_password)
        THEN [resp |-> Response(401, "Incorrect email or password", TRUE,
                                NoToken, NoToken),
              users |-> us]
        ELSE [resp |-> Response(200, "", FALSE,
                                create_refresh_token(Data(First(rows)), t),
                                create_access_token(Data(First(rows)), t)),
              users |-> us]

\* rotate_refresh_token whose query lost its email filter: it takes the first
\* active row of the table.
rotate_refresh_token_AnyActive(token, us, t) ==
    LET d == decode(token, t)
        rows == {u \in us : u.is_active}
    IN  IF d # "payload" \/ token.sub = None \/ token.token_type # "refresh"
           \/ rows = {}
        THEN [resp |-> credentials_exception, users |-> us]
        ELSE [resp |-> Response(200, "", FALSE, NoToken,
                                create_refresh_token(Data(First(rows)), t)),
              users |-> us]

\* refresh_access_token that tests the subject before the token type.
refresh_access_token_SubjectFirst(token, us, t) ==
    LET d == decode(token, t)
        rows == ActiveByEmail(us, token.sub)
    IN  IF d = "ExpiredSignatureError"
        THEN [resp |-> Response(401, "Refresh token has expired", TRUE,
                                NoToken, NoToken),
              users |-> us]
        ELSE IF d = "PyJWTError" \/ token.sub = None
        THEN [resp |-> credentials_exception, users |-> us]
        ELSE IF token.token_type # "refresh"
        THEN [resp |-> Response(401, "Invalid token type: expected 'refresh'",
                                TRUE, NoToken, NoToken),
              users |-> us]
        ELSE IF rows = {}
        THEN [resp |-> credentials_exception, users |-> us]
        ELSE [resp |-> Response(200, "", FALSE,
                                create_access_token(Data(First(rows)), t),
                                NoToken),
              users |-> us]

(* ------------------------------ handlers ------------------------------ *)

\* POST /users/ : the response and the users table after the call.
create_user(email, password, role, us) ==
    IF ByEmail(us, email) # {}
    THEN [resp |-> Response(409, "Email already registered", FALSE, NoToken, NoToken),
          users |-> us]
    ELSE [resp |-> Response(201, "", FALSE, NoToken, NoToken),
          users |-> us \cup {[id |-> Cardinality(us) + 1, email |-> email,
                              hashed_password |-> hash_password(password),
                              role |-> role, is_active |-> TRUE]}]

\* POST /users/token
login(username, password, us, t) ==
    LET rows == ActiveByEmail(us, username)
    IN  IF rows = {} \/ ~verify_password(password, First(rows).hashed_password)
        THEN [resp |-> Response(401, "Incorrect email or password", TRUE,
                                NoToken, NoToken),
              users |-> us]
        ELSE [resp |-> Response(200, "", FALSE,
                                create_access_token(Data(First(rows)), t),
                                create_refresh_token(Data(First(rows)), t)),
              users |-> us]

\* POST /users/access-token/refresh
refresh_access_token(token, us, t) ==
    LET d == decode(token, t)
        rows == ActiveByEmail(us, token.sub)
    IN  IF d = "ExpiredSignatureError"
        THEN [resp |-> Response(401, "Refresh token has expired", TRUE,
                                NoToken, NoToken),
              users |-> us]
        ELSE IF d = "PyJWTError"
        THEN [resp |-> credentials_exception, users |-> us]
        ELSE IF token.token_type # "refresh"
        THEN [resp |-> Response(401, "Invalid token type: expected 'refresh'",
                                TRUE, NoToken, NoToken),
              users |-> us]
        ELSE IF token.sub = None
        THEN [resp |-> credentials_exception, users |-> us]
        ELSE IF rows = {}
        THEN [resp |-> credentials_exception, users |-> us]
        ELSE [resp |-> Response(200, "", FALSE,
                                create_access_token(Data(First(rows)), t),
                                NoToken),
              users |-> us]

\* POST /users/refresh-token/rotate
rotate_refresh_token(token, us, t) ==
    LET d == decode(token, t)
        rows == ActiveByEmail(us, token.sub)
    IN  IF d = "ExpiredSignatureError"
        THEN [resp |-> credentials_exception, users |-> us]
        ELSE IF d = "PyJWTError"
        THEN [resp |-> credentials_exception, users |-> us]
        ELSE IF token.sub = None \/ token.token_type # "refresh"
        THEN [resp |-> credentials_exception, users |-> us]
        ELSE IF rows = {}
        THEN [resp |-> credentials_exception, users |-> us]
        ELSE [resp |-> Response(200, "", FALSE, NoToken,
                                create_refresh_token(Data(First(rows)), t)),
              users |-> us]

(* ------------------------------- state -------------------------------- *)

\* A request: the endpoint, its body, and whether the same token was accepted
\* by refresh_access_token or by rotate_refresh_token in the request before.
Request(op, email, password, role, token, after_refresh, after_rotate) ==
    [op |-> op, email |-> email, password |-> password, role |-> role,
     token |-> token, after_refresh |-> after_refresh,
     after_rotate |-> after_rotate]

NoRequest == Request("none", None, None, None, NoToken, FALSE, FALSE)

\* Tokens of a response that a client can keep.
Issued(r) == {r.access_token, r.refresh_token} \ {NoToken}

\* The clients keep the tokens of a response while they have room for them.
Keep(h, r) ==
    IF Cardinality(h \cup Issued(r)) <= MaxHeld THEN h \cup Issued(r) ELSE h

\* A held token whose bytes were altered: the signature no longer verifies.
Tamper(token) == [token EXCEPT !.sig = "bad"]

\* What a client can put in the refresh_token field of a request body.
Presentable == held \cup {Tamper(k) : k \in held} \cup {Garbage}

\* The request before this one was answered 200 by endpoint op for this token.
Follows(op, token) == req.op = op /\ req.token = token /\ resp.status = 200

\* The create_user requests in flight: none outside the concurrent runs.
Requests == 1 .. MaxRequests

Idle == [pc |-> "idle", email |-> None, password |-> None, role |-> None,
         status |-> 0]

NoPending == [w \in Requests |-> Idle]

\* No request to the products router has been made.
NoCall == [op |-> "none", product_id |-> 0, status |-> 0, detail |-> "",
           listed |-> {}]

Init ==
    /\ users = {}
    /\ now = 0
    /\ held = {}
    /\ req = NoRequest
    /\ resp = NoResponse
    /\ pending = NoPending
    /\ products = {}
    /\ categories = {}
    /\ call = NoCall

Register ==
    \E email \in Emails, password \in Passwords, role \in Roles :
        LET out == create_user(email, password, role, users)
        IN  /\ req' = Request("create_user", email, password, role, NoToken,
                               FALSE, FALSE)
            /\ resp' = out.resp
            /\ users' = out.users
            /\ UNCHANGED <<now, held, pending, shop>>

Login ==
    \E email \in Emails, password \in Passwords :
        LET out == login(email, password, users, now)
        IN  /\ req' = Request("login", email, password, None, NoToken,
                               FALSE, FALSE)
            /\ resp' = out.resp
            /\ users' = out.users
            /\ held' = Keep(held, out.resp)
            /\ UNCHANGED <<now, pending, shop>>

RefreshAccess ==
    \E token \in Presentable :
        LET out == refresh_access_token(token, users, now)
        IN  /\ req' = Request("refresh_access_token", None, None, None, token,
                               Follows("refresh_access_token", token),
                               Follows("rotate_refresh_token", token))
            /\ resp' = out.resp
            /\ users' = out.users
            /\ held' = Keep(held, out.resp)
            /\ UNCHANGED <<now, pending, shop>>

RotateRefresh ==
    \E token \in Presentable :
        LET out == rotate_refresh_token(token, users, now)
        IN  /\ req' = Request("rotate_refresh_token", None, None, None, token,
                               Follows("refresh_access_token", token),
                               Follows("rotate_refresh_token", token))
            /\ resp' = out.resp
            /\ users' = out.users
            /\ held' = Keep(held, out.resp)
            /\ UNCHANGED <<now, pending, shop>>

\* The wall clock advances by one tick, the resolution of the exp claim.
Tick ==
    /\ now < MaxTime
    /\ now' = now + 1
    /\ req' = NoRequest
    /\ resp' = NoResponse
    /\ UNCHANGED <<users, held, pending, shop>>

\* The identity store flips a row's is_active flag.  No route deletes a row
\* of the users table, so rows are deactivated and reactivated, never removed.
SetActive ==
    \E u \in users, b \in BOOLEAN :
        /\ u.is_active # b
        /\ users' = (users \ {u}) \cup {[u EXCEPT !.is_active = b]}
        /\ req' = NoRequest
        /\ resp' = NoResponse
        /\ UNCHANGED <<now, held, pending, shop>>

Next ==
    \/ Register
    \/ Login
    \/ RefreshAccess
    \/ RotateRefresh
    \/ Tick
    \/ SetActive

Spec == Init /\ [][Next]_vars

(* --------------- the refresh endpoints on arbitrary tokens ------------- *)

\* Every string a request body can carry: any claims, signed with SECRET_KEY
\* or not, with or without a subject, of any token_type.
TokenUniverse ==
    [sub : Emails \cup {None}, role : {"buyer"}, id : {1},
     token_type : {"access", "refresh", None},
     exp : 0 .. (MaxTime + REFRESH_TOKEN_LIFETIME),
     sig : {"good", "bad"}]
    \cup {Garbage}

\* Users tables create_user and the identity store can have produced.
StoreSamples ==
    {{}} \cup
    {{[id |-> 1, email |-> "a@x", hashed_password |-> hash_password("pw1"),
       role |-> "buyer", is_active |-> b]} : b \in BOOLEAN}

TokenInit ==
    /\ users \in StoreSamples
    /\ now \in 0 .. MaxTime
    /\ held = {}
    /\ req = NoRequest
    /\ resp = NoResponse
    /\ pending = NoPending
    /\ products = {}
    /\ categories = {}
    /\ call = NoCall

PresentToRefresh ==
    \E token \in TokenUniverse :
        LET out == refresh_access_token(token, users, now)
        IN  /\ req' = Request("refresh_access_token", None, None, None, token,
                               FALSE, FALSE)
            /\ resp' = out.resp
            /\ users' = out.users
            /\ UNCHANGED <<now, held, pending, shop>>

PresentToRotate ==
    \E token \in TokenUniverse :
        LET out == rotate_refresh_token(token, users, now)
        IN  /\ req' = Request("rotate_refresh_token", None, None, None, token,
                               FALSE, FALSE)
            /\ resp' = out.resp
            /\ users' = out.users
            /\ UNCHANGED <<now, held, pending, shop>>

TokenNext ==
    \/ PresentToRefresh
    \/ PresentToRotate

SpecTokens == TokenInit /\ [][TokenNext]_vars

(* ------------------- create_user requests in parallel ------------------ *)
\* Each request runs create_user as a coroutine on its own session; the event
\* loop can switch to another request at every await: after the SELECT
\* (users.py:29) and at the commit (users.py:45).

ConcInit == Init

\* A request arrives with its body.
Arrive(w) ==
    \E email \in Emails, password \in Passwords, role \in Roles :
        /\ pending[w].pc = "idle"
        /\ pending' = [pending EXCEPT ![w] =
               [pc |-> "select", email |-> email, password |-> password,
                role |-> role, status |-> 0]]
        /\ UNCHANGED <<users, now, held, req, resp, shop>>

\* await db.scalars(select ... email == user.email); result.first(); raise 409.
Select(w) ==
    /\ pending[w].pc = "select"
    /\ pending' = [pending EXCEPT ![w] =
           IF ByEmail(users, pending[w].email) # {}
           THEN [@ EXCEPT !.pc = "done", !.status = 409]
           ELSE [@ EXCEPT !.pc = "commit"]]
    /\ UNCHANGED <<users, now, held, req, resp, shop>>

\* INSERT INTO users: the table has a primary key and no other constraint,
\* so the row is stored whatever its email.
Insert(us, row) == us \cup {row}

\* db.add(db_user); await db.commit(); return db_user.
Commit(w) ==
    /\ pending[w].pc = "commit"
    /\ users' = Insert(users,
           [id |-> Cardinality(users) + 1, email |-> pending[w].email,
            hashed_password |-> hash_password(pending[w].password),
            role |-> pending[w].role, is_active |-> TRUE])
    /\ pending' = [pending EXCEPT ![w] = [@ EXCEPT !.pc = "done", !.status = 201]]
    /\ UNCHANGED <<now, held, req, resp, shop>>

ConcNext == \E w \in Requests : Arrive(w) \/ Select(w) \/ Commit(w)

SpecConc == ConcInit /\ [][ConcNext]_vars

(* --------------------------- products router --------------------------- *)

CategoryIds == {1, 2}
ProductIds == 1 .. MaxProducts
\* The fields of ProductCreate other than category_id.
ProductData == {"d1", "d2"}

\* The answer of a products route: status, detail or message, listed ids.
Answer(status, detail, listed) ==
    [status |-> status, detail |-> detail, listed |-> listed]

\* select(CategoryModel).where(id == c, is_active == True)
ActiveCategory(cs, c) == {k \in cs : k.id = c /\ k.is_active}

\* select(ProductModel).where(id == p, is_active == True)
ActiveProduct(ps, p) == {r \in ps : r.id = p /\ r.is_active}

\* GET /products/
get_all_products(ps) ==
    [answer |-> Answer(200, "", {r.id : r \in {q \in ps : q.is_active}}),
     products |-> ps]

\* POST /products/
create_product(category_id, data, ps, cs) ==
    IF ActiveCategory(cs, category_id) = {}
    THEN [answer |-> Answer(400, "Category not found or inactive", {}),
          products |-> ps]
    ELSE [answer |-> Answer(201, "", {}),
          products |-> ps \cup {[id |-> Cardinality(ps) + 1,
                                 category_id |-> category_id, data |-> data,
                                 is_active |-> TRUE]}]

\* GET /products/category/{category_id}
get_products_by_category(category_id, ps, cs) ==
    IF ActiveCategory(cs, category_id) = {}
    THEN [answer |-> Answer(404, "Category not found or inactive", {}),
          products |-> ps]
    ELSE [answer |-> Answer(200, "",
                            {r.id : r \in {q \in ps : q.category_id = category_id
                                                      /\ q.is_active}}),
          products |-> ps]

\* GET /products/{product_id}
get_product(product_id, ps, cs) ==
    LET found == ActiveProduct(ps, product_id)
    IN  IF found = {}
        THEN [answer |-> Answer(404, "Product not found or inactive", {}),
              products |-> ps]
        ELSE IF \A r \in found : ActiveCategory(cs, r.category_id) = {}
        THEN [answer |-> Answer(400, "Category not found or inactive", {}),
              products |-> ps]
        ELSE [answer |-> Answer(200, "", {product_id}), products |-> ps]

\* PUT /products/{product_id}
update_product(product_id, category_id, data, ps, cs) ==
    LET found == ActiveProduct(ps, product_id)
    IN  IF found = {}
        THEN [answer |-> Answer(404, "Product not found or inactive", {}),
              products |-> ps]
        ELSE IF ActiveCategory(cs, category_id) = {}
        THEN [answer |-> Answer(400, "Category not found or inactive", {}),
              products |-> ps]
        ELSE [answer |-> Answer(200, "", {product_id}),
              products |-> {IF r.id = product_id
                            THEN [r EXCEPT !.category_id = category_id,
                                           !.data = data]
                            ELSE r : r \in ps}]

\* DELETE /products/{product_id}.  db.scalars(...) is not awaited
\* (products.py:121): product_result is a coroutine, product_result.first()
\* raises AttributeError, and the request ends as a 500 before any statement
\* reaches the database.
delete_product(product_id, ps) ==
    [answer |-> Answer(500, "Internal Server Error", {}), products |-> ps]

Called(op, product_id, answer) ==
    [op |-> op, product_id |-> product_id, status |-> answer.status,
     detail |-> answer.detail, listed |-> answer.listed]

ShopInit == Init

\* The categories router creates a category or flips its is_active flag.
SetCategory ==
    \E c \in CategoryIds, b \in BOOLEAN :
        /\ [id |-> c, is_active |-> b] \notin categories
        /\ b \/ \E k \in categories : k.id = c
        /\ categories' = {k \in categories : k.id # c}
                             \cup {[id |-> c, is_active |-> b]}
        /\ call' = NoCall
        /\ UNCHANGED <<users, now, held, req, resp, pending, products>>

GetAllProducts ==
    LET out == get_all_products(products)
    IN  /\ call' = Called("get_all_products", 0, out.answer)
        /\ products' = out.products
        /\ UNCHANGED <<users, now, held, req, resp, pending, categories>>

CreateProduct ==
    \E c \in CategoryIds, data \in ProductData :
        LET out == create_product(c, data, products, categories)
        IN  /\ Cardinality(products) < MaxProducts
            /\ call' = Called("create_product", 0, out.answer)
            /\ products' = out.products
            /\ UNCHANGED <<users, now, held, req, resp, pending, categories>>

GetProductsByCategory ==
    \E c \in CategoryIds :
        LET out == get_products_by_category(c, products, categories)
        IN  /\ call' = Called("get_products_by_category", 0, out.answer)
            /\ products' = out.products
            /\ UNCHANGED <<users, now, held, req, resp, pending, categories>>

GetProduct ==
    \E p \in ProductIds :
        LET out == get_product(p, products, categories)
        IN  /\ call' = Called("get_product", p, out.answer)
            /\ products' = out.products
            /\ UNCHANGED <<users, now, held, req, resp, pending, categories>>

UpdateProduct ==
    \E p \in ProductIds, c \in CategoryIds, data \in ProductData :
        LET out == update_product(p, c, data, products, categories)
        IN  /\ call' = Called("update_product", p, out.answer)
            /\ products' = out.products
            /\ UNCHANGED <<users, now, held, req, resp, pending, categories>>

DeleteProduct ==
    \E p \in ProductIds :
        LET out == delete_product(p, products)
        IN  /\ call' = Called("delete_product", p, out.answer)
            /\ products' = out.products
            /\ UNCHANGED <<users, now, held, req, resp, pending, categories>>

ShopNext ==
    \/ SetCategory
    \/ GetAllProducts
    \/ CreateProduct
    \/ GetProductsByCategory
    \/ GetProduct
    \/ UpdateProduct
    \/ DeleteProduct

SpecShop == ShopInit /\ [][ShopNext]_vars

(* ---------------------------- error kinds ----------------------------- *)

IsAuthenticationFailed(r) ==
    r.status = 401 /\ r.detail = "Incorrect email or password"

IsInvalidCredentials(r) ==
    r.status = 401 /\ r.detail = "Could not validate refresh token"

IsRefreshExpired(r) ==
    r.status = 401 /\ r.detail = "Refresh token has expired"

IsWrongTokenType(r) ==
    r.status = 401 /\ r.detail = "Invalid token type: expected 'refresh'"

IsDuplicateEmail(r) ==
    r.status = 409 /\ r.detail = "Email already registered"

RefreshOps == {"refresh_access_token", "rotate_refresh_token"}

(* ------------------------------ properties ---------------------------- *)

\* The request presented a correctly signed, unexpired access token to one
\* of the two refresh endpoints.
AccessTokenPresented ==
    /\ req.op \in RefreshOps
    /\ req.token.sig = "good"
    /\ req.token.token_type = "access"
    /\ req.token.exp > now

\* C1 (as stated): a correctly signed, unexpired access token presented to
\* RefreshAccess or to RotateRefresh is rejected with WrongTokenType, and no
\* token is issued.
C1_AccessTokenWrongTypeBoth ==
    AccessTokenPresented => IsWrongTokenType(resp) /\ Issued(resp) = {}

\* C1 (amended): such a token is never answered with a token; RefreshAccess
\* rejects it with WrongTokenType, RotateRefresh with the generic
\* InvalidCredentials.
C1_AccessTokenRejected ==
    AccessTokenPresented =>
        /\ Issued(resp) = {}
        /\ req.op = "refresh_access_token" =>
               IsWrongTokenType(resp) /\ ~IsInvalidCredentials(resp)
        /\ req.op = "rotate_refresh_token" => IsInvalidCredentials(resp)

C1_Witness ==
    /\ AccessTokenPresented
    /\ req.op = "rotate_refresh_token"
    /\ IsInvalidCredentials(resp)

\* The request presented a correctly signed refresh token whose exp has passed.
ExpiredRefreshPresented ==
    /\ req.op \in RefreshOps
    /\ req.token.sig = "good"
    /\ req.token.token_type = "refresh"
    /\ req.token.exp <= now

\* The request presented a token with a bad signature or a malformed one.
UndecodablePresented ==
    /\ req.op \in RefreshOps
    /\ req.token.sig \in {"bad", "malformed"}

\* C2 (as stated): an expired, correctly signed refresh token fails with
\* RefreshExpired in both endpoints, an undecodable one with InvalidCredentials.
C2_ExpiredIsRefreshExpiredBoth ==
    /\ ExpiredRefreshPresented => IsRefreshExpired(resp)
    /\ UndecodablePresented => IsInvalidCredentials(resp)

\* C2 (amended): RefreshAccess answers an expired refresh token with
\* RefreshExpired; RotateRefresh answers it with InvalidCredentials, as both
\* endpoints answer an undecodable token.
C2_ExpiredRejected ==
    /\ ExpiredRefreshPresented =>
           /\ Issued(resp) = {}
           /\ req.op = "refresh_access_token" => IsRefreshExpired(resp)
           /\ req.op = "rotate_refresh_token" => IsInvalidCredentials(resp)
    /\ UndecodablePresented => IsInvalidCredentials(resp) /\ Issued(resp) = {}

C2_Witness ==
    /\ ExpiredRefreshPresented
    /\ req.op = "rotate_refresh_token"
    /\ IsInvalidCredentials(resp)

\* An identity with the request's email exists, is active, and its stored hash
\* is the hash of the request's password.
GoodCredentials ==
    \E u \in users :
        /\ u.email = req.email
        /\ u.is_active
        /\ u.hashed_password = hash_password(req.password)

\* C3: login issues an access+refresh pair iff the identity exists, is active
\* and the password verifies; otherwise the answer is one and the same
\* AuthenticationFailed response, with no token.
C3_LoginIffCredentials ==
    req.op = "login" =>
        IF GoodCredentials
        THEN /\ resp.status = 200
             /\ resp.access_token # NoToken
             /\ resp.refresh_token # NoToken
        ELSE resp = Response(401, "Incorrect email or password", TRUE,
                             NoToken, NoToken)

\* A login for an inactive identity with its correct password is refused.
C3_Witness ==
    /\ req.op = "login"
    /\ IsAuthenticationFailed(resp)
    /\ \E u \in users :
           /\ u.email = req.email
           /\ ~u.is_active
           /\ u.hashed_password = hash_password(req.password)

\* A correctly signed refresh token whose exp has not passed and whose subject
\* is an active identity.
LiveRefreshToken(k, us, t) ==
    /\ k.sig = "good"
    /\ k.token_type = "refresh"
    /\ k.exp > t
    /\ \E u \in us : u.email = k.sub /\ u.is_active

\* The held tokens RefreshAccess answers with 200 in the given state.
AcceptedByRefresh(h, us, t) ==
    {k \in h : refresh_access_token(k, us, t).resp.status = 200}

\* C4: a RefreshAccess call changes neither the identity store nor the set of
\* tokens RefreshAccess accepts; a token it accepted is accepted again by the
\* next call, and by every call made while the token is unexpired and its
\* identity active.
C4_RefreshNonDestructive ==
    [][req'.op = "refresh_access_token" =>
          /\ users' = users
          /\ AcceptedByRefresh(held, users', now') =
                 AcceptedByRefresh(held, users, now)
          /\ req'.after_refresh => resp'.status = 200
          /\ LiveRefreshToken(req'.token, users, now) => resp'.status = 200]_vars

\* The same refresh token is accepted by two RefreshAccess calls in a row.
C4_Witness ==
    /\ req.op = "refresh_access_token"
    /\ req.after_refresh
    /\ resp.status = 200

\* C5 (as stated): a successful rotation returns a refresh token whose exp is
\* strictly later than the exp of the token presented.
C5_RotationStrictlyLater ==
    req.op = "rotate_refresh_token" /\ resp.status = 200 =>
        resp.refresh_token.exp > req.token.exp

\* C5 (amended): the returned token's exp is never earlier than the presented
\* token's; it is strictly later exactly when the clock has advanced since the
\* presented token was issued, and equal when rotation happens in the tick of
\* issuance.
C5_RotationNotEarlier ==
    req.op = "rotate_refresh_token" /\ resp.status = 200 =>
        LET issued_at == req.token.exp - REFRESH_TOKEN_LIFETIME
        IN  /\ issued_at <= now
            /\ resp.refresh_token.exp >= req.token.exp
            /\ issued_at < now => resp.refresh_token.exp > req.token.exp
            /\ issued_at = now => resp.refresh_token = req.token

C5_Witness ==
    /\ req.op = "rotate_refresh_token"
    /\ resp.status = 200
    /\ resp.refresh_token.exp > req.token.exp

\* The held refresh tokens that both endpoints answer with 200 now.
AcceptedByBoth ==
    {k \in held : /\ k.token_type = "refresh"
                  /\ refresh_access_token(k, users, now).resp.status = 200
                  /\ rotate_refresh_token(k, users, now).resp.status = 200}

C7_RotationInvalidatesOld ==
    req.op \in RefreshOps /\ req.after_rotate => resp.status # 200

\* C8: create_user with an email already in the store answers DuplicateEmail
\* and leaves the store unchanged; otherwise it answers 201 and adds exactly
\* one identity with that email, the hash of the password and the role.
C8_RegistrationUnique ==
    [][req'.op = "create_user" =>
          IF \E u \in users : u.email = req'.email
          THEN IsDuplicateEmail(resp') /\ users' = users
          ELSE /\ resp'.status = 201
               /\ users \subseteq users'
               /\ Cardinality(users' \ users) = 1
               /\ \A u \in users' \ users :
                      /\ u.email = req'.email
                      /\ u.hashed_password = hash_password(req'.password)
                      /\ u.role = req'.role]_vars

\* A registration was refused for an email another identity already holds.
C8_Witness ==
    /\ req.op = "create_user"
    /\ IsDuplicateEmail(resp)
    /\ \E u \in users : u.email = req.email
    /\ Cardinality(users) = 2

\* C9: login, RefreshAccess and RotateRefresh never change the identity
\* store, and a rejected request issues no token and changes neither the
\* identity store nor the tokens in circulation.
C9_AuthLeavesStore ==
    [][/\ req'.op \in {"login"} \cup RefreshOps => users' = users
       /\ req'.op # "none" /\ resp'.status \notin {200, 201} =>
              /\ Issued(resp') = {}
              /\ users' = users
              /\ held' = held]_vars

\* A login with a wrong password for an existing identity was refused.
C9_Witness ==
    /\ req.op = "login"
    /\ IsAuthenticationFailed(resp)
    /\ \E u \in users :
           /\ u.email = req.email
           /\ u.is_active
           /\ u.hashed_password # hash_password(req.password)

\* The request presented a decodable refresh token that names a subject.
DecodableRefreshPresented ==
    /\ req.op \in RefreshOps
    /\ decode(req.token, now) = "payload"
    /\ req.token.token_type = "refresh"
    /\ req.token.sub # None

\* C10: RefreshAccess and RotateRefresh answer 200 only if the token's subject
\* is an identity that exists and is active at the time of the call; a
\* decodable refresh token whose subject is absent or inactive is answered
\* with InvalidCredentials and no token.
C10_ActiveIdentityRequired ==
    /\ req.op \in RefreshOps /\ resp.status = 200 =>
           \E u \in users : u.email = req.token.sub /\ u.is_active
    /\ DecodableRefreshPresented
       /\ ~(\E u \in users : u.email = req.token.sub /\ u.is_active) =>
           IsInvalidCredentials(resp) /\ Issued(resp) = {}

\* An unexpired refresh token issued before its identity was deactivated is
\* refused.
C10_Witness ==
    /\ DecodableRefreshPresented
    /\ req.token \in held
    /\ \E u \in users : u.email = req.token.sub /\ ~u.is_active
    /\ IsInvalidCredentials(resp)

\* C11: a 200 answer carries tokens of exactly the promised kinds: login an
\* access token and a refresh token, RefreshAccess an access token and no
\* refresh token, RotateRefresh a refresh token and no access token.
C11_TokenKinds ==
    resp.status = 200 =>
        /\ req.op = "login" =>
               /\ resp.access_token.token_type = "access"
               /\ resp.refresh_token.token_type = "refresh"
        /\ req.op = "refresh_access_token" =>
               /\ resp.access_token.token_type = "access"
               /\ resp.refresh_token = NoToken
        /\ req.op = "rotate_refresh_token" =>
               /\ resp.refresh_token.token_type = "refresh"
               /\ resp.access_token = NoToken

\* A login answered with both tokens.
C11_Witness ==
    /\ req.op = "login"
    /\ resp.status = 200
    /\ resp.access_token.token_type = "access"
    /\ resp.refresh_token.token_type = "refresh"

\* Token k carries the email, role and id of row u.
CarriesIdentity(k, u) == k.sub = u.email /\ k.role = u.role /\ k.id = u.id

\* C12: every token issued by login, RefreshAccess or RotateRefresh carries
\* the email, role and id of the identity it was issued for; the token a
\* refresh endpoint returns has the sub, role and id of the token presented,
\* and so has every token in circulation, along any chain of rotations.
C12_SubjectClaimsPreserved ==
    /\ req.op = "login" /\ resp.status = 200 =>
           \A k \in Issued(resp) :
               \E u \in users : u.email = req.email /\ CarriesIdentity(k, u)
    /\ req.op \in RefreshOps /\ resp.status = 200 =>
           \A k \in Issued(resp) :
               /\ \E u \in users :
                      u.email = req.token.sub /\ CarriesIdentity(k, u)
               /\ k.sub = req.token.sub
               /\ k.role = req.token.role
               /\ k.id = req.token.id
    /\ \A k \in held : \E u \in users : CarriesIdentity(k, u)

\* A rotation returned a new token while a second identity is registered.
C12_Witness ==
    /\ req.op = "rotate_refresh_token"
    /\ resp.status = 200
    /\ resp.refresh_token # req.token
    /\ resp.refresh_token.sub = req.token.sub
    /\ resp.refresh_token.id = req.token.id
    /\ Cardinality(users) = 2

\* The first check, in the order signature and structure, expiry, token
\* type, subject, identity, that token k fails at time t; "none" if it
\* passes them all.
FirstFailure(k, us, t) ==
    IF k.sig # "good" THEN "signature"
    ELSE IF k.exp <= t THEN "expiry"
    ELSE IF k.token_type # "refresh" THEN "type"
    ELSE IF k.sub = None THEN "subject"
    ELSE IF ~(\E u \in us : u.email = k.sub /\ u.is_active) THEN "identity"
    ELSE "none"

\* C13 (as stated): in both endpoints an expired access token yields
\* RefreshExpired, a decodable token with a non-refresh type and no subject
\* yields WrongTokenType, and a refresh token without subject yields
\* InvalidCredentials.
C13_FirstFailingCheckBoth ==
    req.op \in RefreshOps =>
        /\ req.token.sig = "good" /\ req.token.exp <= now
           /\ req.token.token_type = "access" => IsRefreshExpired(resp)
        /\ decode(req.token, now) = "payload"
           /\ req.token.token_type # "refresh"
           /\ req.token.sub = None => IsWrongTokenType(resp)
        /\ decode(req.token, now) = "payload"
           /\ req.token.token_type = "refresh"
           /\ req.token.sub = None => IsInvalidCredentials(resp)

\* C13 (amended): RefreshAccess reports the first failing check in the order
\* signature and structure, expiry, token type, subject, identity, as
\* InvalidCredentials, RefreshExpired, WrongTokenType, InvalidCredentials,
\* InvalidCredentials; RotateRefresh reports every failing check as
\* InvalidCredentials; both answer 200 exactly when no check fails.
C13_FirstFailingCheck ==
    req.op \in RefreshOps =>
        LET f == FirstFailure(req.token, users, now)
        IN  /\ f = "none" <=> resp.status = 200
            /\ req.op = "refresh_access_token" =>
                   /\ f \in {"signature", "subject", "identity"} =>
                          IsInvalidCredentials(resp)
                   /\ f = "expiry" => IsRefreshExpired(resp)
                   /\ f = "type" => IsWrongTokenType(resp)
            /\ req.op = "rotate_refresh_token" /\ f # "none" =>
                   IsInvalidCredentials(resp)

\* RefreshAccess answered WrongTokenType to a decodable token that has both a
\* non-refresh type and no subject.
C13_Witness ==
    /\ req.op = "refresh_access_token"
    /\ decode(req.token, now) = "payload"
    /\ req.token.token_type # "refresh"
    /\ req.token.sub = None
    /\ IsWrongTokenType(resp)

C15_SoftDelete ==
    [][call'.op = "delete_product" =>
          LET target == ActiveProduct(products, call'.product_id)
          IN  IF target # {}
              THEN /\ call'.status = 200
                   /\ call'.detail = "Product marked as inactive"
                   /\ products' = (products \ target)
                          \cup {[r EXCEPT !.is_active = FALSE] : r \in target}
                   /\ get_product(call'.product_id, products',
                                  categories').answer.status = 404
                   /\ call'.product_id \notin
                          get_all_products(products').answer.listed
              ELSE /\ call'.status = 404
                   /\ products' = products]_vars

====
